---- MODULE Spec2Model ----
\* Group varint codec of govarint.go: U32GroupVarintEncoder writing to an
\* io.Writer, U32GroupVarintDecoder reading from an io.ByteReader.
EXTENDS Integers, Sequences, FiniteSets, TLC

\* ------------------------------------------------------------------ bounds
\* Number of PutU32 calls made on the encoder.
MaxPuts == 5
\* Number of explicit Flush / Close calls made on the encoder.
MaxFlushes == 2
\* Number of writes the sink may fail.
MaxSinkFaults == 1
\* Number of reads the byte source may fail with an error other than io.EOF.
MaxReadFaults == 1
\* Number of GetU32 calls that return an error.
MaxErrGets == 2
\* Length of the byte streams handed to a decoder as they are.
MaxStreamLen == 4
\* Number of full groups in a stream of full groups.
MaxGroups == 2

\* ------------------------------------------------------------- machine words
\* temp [17]byte and store/group [4]uint32
TempLen == 17
GroupLen == 4

\* A uint32 is the pair <<hi, lo>> of its two 16-bit halves, hi * 2^16 + lo
\* (the model checker's integers are narrower than 2^32).
Half == 2 ^ 16
U32(n) == <<n \div Half, n % Half>>
MaxU32 == <<Half - 1, Half - 1>>
Zero32 == U32(0)

\* Values handed to PutU32 in streams: zero, a value of each byte width, and
\* the largest uint32.
Values == {U32(0), U32(1), U32(300), U32(70000), MaxU32}
\* Further streams: the two worked examples of the wire format, and the values
\* next to each power of 256.
Scenarios ==
  {<<U32(1), U32(300), U32(70000), U32(0)>>,
   <<U32(5), U32(6)>>,
   <<U32(255), U32(256), U32(65535), U32(65536)>>,
   <<U32(16777215), U32(16777216), MaxU32, U32(0)>>}
\* Byte streams handed to a decoder as they are: every stream of at most
\* MaxStreamLen bytes of ByteAlphabet (control bytes declaring widths 1, 2 and
\* 4), and every prefix of the worked examples of the wire format.
ByteAlphabet == {0, 1, 64, 255}
WireScenarios ==
  {<<16, 1, 1, 44, 1, 17, 112, 0>>,
   <<24, 1, 1, 44, 1, 17, 112, 0>>,
   <<0, 5, 6>>}
ByteStreams ==
  UNION {[1..n -> ByteAlphabet] : n \in 0..MaxStreamLen}
  \cup UNION {{SubSeq(t, 1, n) : n \in 0..Len(t)} : t \in WireScenarios}
\* Values handed to PutU32 when calls come in any order: the shortest and the
\* longest encodings.
FewValues == {U32(0), MaxU32}

Nil == "nil"
EOF == "io.EOF"
ErrWrite == "write error"
ErrRead == "read error"

Min(a, b) == IF a < b THEN a ELSE b

\* x >> s on a uint32, s in 0..31
Shr32(x, s) ==
  IF s >= 16
  THEN <<0, x[1] \div (2 ^ (s - 16))>>
  ELSE <<x[1] \div (2 ^ s),
         (x[1] % (2 ^ s)) * (2 ^ (16 - s)) + x[2] \div (2 ^ s)>>
\* byte(x) of a uint32: its low eight bits
Byte32(x) == x[2] % 256
\* x<<8 + uint32(v) on a uint32 x and a byte v, modulo 2^32
Shl8Add32(x, v) ==
  <<(x[1] % 256) * 256 + x[2] \div 256, (x[2] % 256) * 256 + v>>
\* x >> s on a uint8
Shr8(x, s) == x \div (2 ^ s)
\* x << s on a uint8
Shl8(x, s) == (x * (2 ^ s)) % 256
\* a | b on uint8, bit by bit
RECURSIVE Or8(_, _)
Or8(a, b) ==
  IF a = 0 THEN b
  ELSE IF b = 0 THEN a
  ELSE (IF a % 2 = 1 THEN 1 ELSE b % 2) + 2 * Or8(a \div 2, b \div 2)
\* a & b on uint8, bit by bit
RECURSIVE And8(_, _)
And8(a, b) ==
  IF a = 0 THEN 0
  ELSE IF b = 0 THEN 0
  ELSE (IF a % 2 = 1 THEN b % 2 ELSE 0) + 2 * And8(a \div 2, b \div 2)

\* ------------------------------------------------------------------ encoder
\* Mutant of shifts: the low byte first.
shiftsLowFirst == <<0, 8, 16, 24>>

\* shifts := []byte{24, 16, 8, 0}
shifts == <<24, 16, 8, 0>>

\* Mutant of FlushShifts: no byte for a value that is all zeroes.
RECURSIVE FlushShiftsNoZero(_, _, _)
FlushShiftsNoZero(x, k, st) ==
  IF k > 4 THEN st
  ELSE LET shift == <<24, 16, 8, 0>>[k] IN
       IF Shr32(x, shift) # Zero32
       THEN FlushShiftsNoZero(x, k + 1,
              [temp   |-> [st.temp EXCEPT ![st.length] = Byte32(Shr32(x, shift))],
               length |-> st.length + 1,
               size   |-> st.size + 1])
       ELSE FlushShiftsNoZero(x, k + 1, st)

\* The inner loop of Flush over the shifts, from the k-th shift on, for the
\* value x. st = [temp, length, size].
RECURSIVE FlushShifts(_, _, _)
FlushShifts(x, k, st) ==
  IF k > Len(shifts) THEN st
  ELSE LET shift == shifts[k] IN
       IF Shr32(x, shift) # Zero32 \/ shift = 0
       THEN FlushShifts(x, k + 1,
              [temp   |-> [st.temp EXCEPT ![st.length] = Byte32(Shr32(x, shift))],
               length |-> st.length + 1,
               size   |-> st.size + 1])
       ELSE FlushShifts(x, k + 1, st)

\* Mutant of FlushSlots: the size of slot i in bits 2i+1..2i of the size byte.
RECURSIVE FlushSlotsLowFirst(_, _, _)
FlushSlotsLowFirst(store, i, st) ==
  IF i >= GroupLen THEN st
  ELSE LET s1 == FlushShifts(store[i], 1,
                   [temp |-> st.temp, length |-> st.length, size |-> 0])
           sizeByte == Or8(s1.temp[0], Shl8(s1.size - 1, i * 2))
       IN FlushSlotsLowFirst(store, i + 1,
            [temp |-> [s1.temp EXCEPT ![0] = sizeByte], length |-> s1.length])

\* The outer loop of Flush over the slots of b.store, from slot i on.
\* st = [temp, length].
RECURSIVE FlushSlots(_, _, _)
FlushSlots(store, i, st) ==
  IF i >= GroupLen THEN st
  ELSE LET s1 == FlushShifts(store[i], 1,
                   [temp |-> st.temp, length |-> st.length, size |-> 0])
           sizeByte == Or8(s1.temp[0], Shl8(s1.size - 1, (3 - i) * 2))
       IN FlushSlots(store, i + 1,
            [temp |-> [s1.temp EXCEPT ![0] = sizeByte], length |-> s1.length])

\* b.w.Write(p) on a sink that accepts k bytes: the bytes that reach the sink,
\* and an error when fewer than len(p) were accepted.
Write(p, k) ==
  [data |-> SubSeq(p, 1, Min(k, Len(p))),
   err  |-> IF k < Len(p) THEN ErrWrite ELSE Nil]

\* Mutant of Flush: the unused entries of the store keep their old values.
FlushNoPad(b, k) ==
  IF b.index = 0
  THEN [b |-> b, n |-> 0, err |-> Nil, data |-> <<>>, werr |-> FALSE]
  ELSE LET st == FlushSlots(b.store, 0,
                   [temp |-> [b.temp EXCEPT ![0] = 0], length |-> 1])
           length == IF b.index # 4 THEN st.length - (4 - b.index)
                     ELSE st.length
           wr == Write([j \in 1..length |-> st.temp[j - 1]], k)
       IN [b    |-> [b EXCEPT !.temp = st.temp],
           n    |-> length,
           err  |-> wr.err,
           data |-> wr.data,
           werr |-> wr.err # Nil]

\* Mutant of Flush: the bytes of the unused entries are written too.
FlushNoTruncate(b, k) ==
  IF b.index = 0
  THEN [b |-> b, n |-> 0, err |-> Nil, data |-> <<>>, werr |-> FALSE]
  ELSE LET store1 == [i \in 0..(GroupLen - 1) |->
                        IF i >= b.index THEN Zero32 ELSE b.store[i]]
           st == FlushSlots(store1, 0,
                   [temp |-> [b.temp EXCEPT ![0] = 0], length |-> 1])
           length == st.length
           wr == Write([j \in 1..length |-> st.temp[j - 1]], k)
       IN [b    |-> [b EXCEPT !.store = store1, !.temp = st.temp],
           n    |-> length,
           err  |-> wr.err,
           data |-> wr.data,
           werr |-> wr.err # Nil]

\* Mutant of Flush: no early return when index is zero.
FlushAlways(b, k) ==
  LET store1 == [i \in 0..(GroupLen - 1) |->
                   IF i >= b.index THEN Zero32 ELSE b.store[i]]
      st == FlushSlots(store1, 0,
              [temp |-> [b.temp EXCEPT ![0] = 0], length |-> 1])
      length == IF b.index # 4 THEN st.length - (4 - b.index)
                ELSE st.length
      wr == Write([j \in 1..length |-> st.temp[j - 1]], k)
  IN [b    |-> [b EXCEPT !.store = store1, !.temp = st.temp],
      n    |-> length,
      err  |-> wr.err,
      data |-> wr.data,
      werr |-> wr.err # Nil]

\* func (b *U32GroupVarintEncoder) Flush() (int, error), on a sink that accepts
\* k bytes of the write. Result: the encoder after the call, the values
\* returned, and the bytes that reached the sink.
Flush(b, k) ==
  IF b.index = 0
  THEN [b |-> b, n |-> 0, err |-> Nil, data |-> <<>>, werr |-> FALSE]
  ELSE LET store1 == [i \in 0..(GroupLen - 1) |->
                        IF i >= b.index THEN Zero32 ELSE b.store[i]]
           st == FlushSlots(store1, 0,
                   [temp |-> [b.temp EXCEPT ![0] = 0], length |-> 1])
           length == IF b.index # 4 THEN st.length - (4 - b.index)
                     ELSE st.length
           wr == Write([j \in 1..length |-> st.temp[j - 1]], k)
       IN [b    |-> [b EXCEPT !.store = store1, !.temp = st.temp],
           n    |-> length,
           err  |-> wr.err,
           data |-> wr.data,
           werr |-> wr.err # Nil]

\* Mutant of PutU32: the bytes of the flush are not added to bytesWritten.
PutU32NoCount(b, x, k) ==
  LET b1 == [b EXCEPT !.store = [b.store EXCEPT ![b.index] = x],
                      !.index = b.index + 1]
  IN IF b1.index = 4
     THEN LET f == Flush(b1, k) IN
          IF f.err # Nil
          THEN [b |-> f.b, n |-> f.n, err |-> f.err, data |-> f.data,
                werr |-> f.werr]
          ELSE [b |-> [f.b EXCEPT !.index = 0], n |-> 0, err |-> Nil,
                data |-> f.data, werr |-> f.werr]
     ELSE [b |-> b1, n |-> 0, err |-> Nil, data |-> <<>>, werr |-> FALSE]

\* Mutant of PutU32: index is not set to 0 after the flush of a full group.
PutU32NoReset(b, x, k) ==
  LET b1 == [b EXCEPT !.store = [b.store EXCEPT ![b.index] = x],
                      !.index = b.index + 1]
  IN IF b1.index = 4
     THEN LET f == Flush(b1, k) IN
          [b |-> f.b, n |-> f.n, err |-> f.err, data |-> f.data,
           werr |-> f.werr]
     ELSE [b |-> b1, n |-> 0, err |-> Nil, data |-> <<>>, werr |-> FALSE]

\* func (b *U32GroupVarintEncoder) PutU32(x uint32) (int, error), on an encoder
\* whose index is below 4 (the store has four slots).
PutU32(b, x, k) ==
  LET b1 == [b EXCEPT !.store = [b.store EXCEPT ![b.index] = x],
                      !.index = b.index + 1]
  IN IF b1.index = 4
     THEN LET f == Flush(b1, k) IN
          IF f.err # Nil
          THEN [b |-> f.b, n |-> f.n, err |-> f.err, data |-> f.data,
                werr |-> f.werr]
          ELSE [b |-> [f.b EXCEPT !.index = 0], n |-> 0 + f.n, err |-> Nil,
                data |-> f.data, werr |-> f.werr]
     ELSE [b |-> b1, n |-> 0, err |-> Nil, data |-> <<>>, werr |-> FALSE]

\* func (b *U32GroupVarintEncoder) Close(): Flush with its results dropped.
Close(b, k) ==
  LET f == Flush(b, k) IN
  [b |-> f.b, n |-> 0, err |-> Nil, data |-> f.data, werr |-> f.werr]

\* NewU32GroupVarintEncoder(w): the zero value of the struct.
NewU32GroupVarintEncoder ==
  [index |-> 0,
   store |-> [i \in 0..(GroupLen - 1) |-> Zero32],
   temp  |-> [i \in 0..(TempLen - 1) |-> 0]]

\* ------------------------------------------------------------------ decoder
\* r.ReadByte() of an io.ByteReader over the bytes rd.buf with rd.off of them
\* consumed. End of data is io.EOF, and stays so. rd.trip counts the reads left
\* before the source fails once with another error (negative: it never does);
\* the failed read consumes no byte.
ReadByte(rd) ==
  IF rd.trip = 0
  THEN [byte |-> 0, err |-> ErrRead, rd |-> [rd EXCEPT !.trip = -1]]
  ELSE LET t == IF rd.trip > 0 THEN rd.trip - 1 ELSE rd.trip IN
       IF rd.off >= Len(rd.buf)
       THEN [byte |-> 0, err |-> EOF, rd |-> [rd EXCEPT !.trip = t]]
       ELSE [byte |-> rd.buf[rd.off + 1], err |-> Nil,
             rd |-> [rd EXCEPT !.off = rd.off + 1, !.trip = t]]

\* Mutant of getGroupBytes: every error of ReadByte ends the group like io.EOF.
RECURSIVE getGroupBytesAnyErr(_, _, _, _, _)
getGroupBytesAnyErr(b, rd, index, i, size) ==
  IF i >= size THEN [b |-> b, rd |-> rd, err |-> Nil]
  ELSE LET rb == ReadByte(rd) IN
       IF rb.err # Nil
       THEN [b |-> [b EXCEPT !.capacity = index, !.finished = TRUE],
             rd |-> rb.rd, err |-> Nil]
       ELSE getGroupBytesAnyErr(
              [b EXCEPT !.group[index] = Shl8Add32(b.group[index], rb.byte)],
              rb.rd, index, i + 1, size)

\* The inner loop of getGroup: the bytes i..size-1 of the slot index.
\* Result: the decoder, the reader, and the error getGroup returns from inside
\* the loop (Nil when the loop ends or breaks).
RECURSIVE getGroupBytes(_, _, _, _, _)
getGroupBytes(b, rd, index, i, size) ==
  IF i >= size THEN [b |-> b, rd |-> rd, err |-> Nil]
  ELSE LET rb == ReadByte(rd) IN
       IF rb.err = EOF
       THEN [b |-> [b EXCEPT !.capacity = index, !.finished = TRUE],
             rd |-> rb.rd, err |-> Nil]
       ELSE IF rb.err # Nil
       THEN [b |-> b, rd |-> rb.rd, err |-> rb.err]
       ELSE getGroupBytes(
              [b EXCEPT !.group[index] = Shl8Add32(b.group[index], rb.byte)],
              rb.rd, index, i + 1, size)

\* Mutant of getGroupSlots: the size of slot index read from bits
\* 2*index+1..2*index of the size byte.
RECURSIVE getGroupSlotsLowFirst(_, _, _, _)
getGroupSlotsLowFirst(b, rd, sizeByte, index) ==
  IF index >= GroupLen THEN [b |-> b, rd |-> rd, err |-> Nil]
  ELSE LET size == And8(Shr8(sizeByte, index * 2), 3) + 1
           s == getGroupBytes([b EXCEPT !.group[index] = Zero32], rd, index, 0, size)
       IN IF s.err # Nil THEN s
          ELSE IF s.b.finished THEN s
          ELSE getGroupSlotsLowFirst(s.b, s.rd, sizeByte, index + 1)

\* Mutant of getGroupSlots: the two size bits taken as the number of bytes.
RECURSIVE getGroupSlotsNoPlusOne(_, _, _, _)
getGroupSlotsNoPlusOne(b, rd, sizeByte, index) ==
  IF index >= GroupLen THEN [b |-> b, rd |-> rd, err |-> Nil]
  ELSE LET size == And8(Shr8(sizeByte, (3 - index) * 2), 3)
           s == getGroupBytes([b EXCEPT !.group[index] = Zero32], rd, index, 0, size)
       IN IF s.err # Nil THEN s
          ELSE IF s.b.finished THEN s
          ELSE getGroupSlotsNoPlusOne(s.b, s.rd, sizeByte, index + 1)

\* The outer loop of getGroup over the slots, from slot index on.
RECURSIVE getGroupSlots(_, _, _, _)
getGroupSlots(b, rd, sizeByte, index) ==
  IF index >= GroupLen THEN [b |-> b, rd |-> rd, err |-> Nil]
  ELSE LET size == And8(Shr8(sizeByte, (3 - index) * 2), 3) + 1
           s == getGroupBytes([b EXCEPT !.group[index] = Zero32], rd, index, 0, size)
       IN IF s.err # Nil THEN s
          ELSE IF s.b.finished THEN s
          ELSE getGroupSlots(s.b, s.rd, sizeByte, index + 1)

\* Mutant of getGroup: the pos pointer is reset before the size byte is read.
getGroupResetFirst(b, rd) ==
  LET rb == ReadByte(rd) IN
  IF rb.err # Nil THEN [b |-> [b EXCEPT !.pos = 0], rd |-> rb.rd, err |-> rb.err]
  ELSE LET s == getGroupSlots(b, rb.rd, rb.byte, 0) IN
       IF s.err # Nil THEN s
       ELSE [b |-> [s.b EXCEPT !.pos = 0], rd |-> s.rd, err |-> Nil]

\* func (b *U32GroupVarintDecoder) getGroup() error
getGroup(b, rd) ==
  LET rb == ReadByte(rd) IN
  IF rb.err # Nil THEN [b |-> b, rd |-> rb.rd, err |-> rb.err]
  ELSE LET s == getGroupSlots(b, rb.rd, rb.byte, 0) IN
       IF s.err # Nil THEN s
       ELSE [b |-> [s.b EXCEPT !.pos = 0], rd |-> s.rd, err |-> Nil]

\* The tail of GetU32: b.pos += 1; return b.group[b.pos-1], nil. Indexing the
\* four-element group outside 0..3 panics.
GetU32Next(b, rd) ==
  LET b1 == [b EXCEPT !.pos = b.pos + 1] IN
  IF b1.pos - 1 \in 0..(GroupLen - 1)
  THEN [b |-> b1, rd |-> rd, val |-> b1.group[b1.pos - 1], err |-> Nil,
        panic |-> FALSE]
  ELSE [b |-> b1, rd |-> rd, val |-> Zero32, err |-> Nil, panic |-> TRUE]

\* func (b *U32GroupVarintDecoder) GetU32() (uint32, error)
GetU32(b, rd) ==
  IF b.pos = b.capacity
  THEN IF b.finished
       THEN [b |-> b, rd |-> rd, val |-> Zero32, err |-> EOF, panic |-> FALSE]
       ELSE LET g == getGroup(b, rd) IN
            IF g.err # Nil
            THEN [b |-> g.b, rd |-> g.rd, val |-> Zero32, err |-> g.err,
                  panic |-> FALSE]
            ELSE GetU32Next(g.b, g.rd)
  ELSE GetU32Next(b, rd)

\* NewU32GroupVarintDecoder(r): pos and capacity 4, the rest zero.
NewU32GroupVarintDecoder ==
  [group    |-> [i \in 0..(GroupLen - 1) |-> Zero32],
   pos      |-> 4,
   finished |-> FALSE,
   capacity |-> 4]

\* ------------------------------------------------------------ state machine
VARIABLES
  pc,       \* "encode": the encoder is in use; "closed": the stream is written;
            \* "decode": a decoder reads the bytes written; "panic": a call
            \* panicked
  enc,      \* the U32GroupVarintEncoder: index, store, temp
  sink,     \* the bytes the io.Writer has accepted
  wfaults,  \* writes the sink has failed
  puts,     \* the values passed to PutU32 so far, in order
  nflush,   \* explicit Flush and Close calls so far
  ret,      \* the last encoder call: its name, what it returned, the bytes
            \* it added to the sink, whether the sink's write failed in it
  dec,      \* the U32GroupVarintDecoder: group, pos, finished, capacity
  src,      \* the io.ByteReader: buf, the bytes; off, how many were consumed
  rfaults,  \* reads the source has failed with an error other than io.EOF
  out       \* what the GetU32 calls returned so far: [val, err]

vars == <<pc, enc, sink, wfaults, puts, nflush, ret, dec, src, rfaults, out>>

encVars == <<enc, sink, wfaults, puts, nflush, ret>>
decVars == <<dec, src, rfaults, out>>

Init ==
  /\ pc = "encode"
  /\ enc = NewU32GroupVarintEncoder
  /\ sink = <<>>
  /\ wfaults = 0
  /\ puts = <<>>
  /\ nflush = 0
  /\ ret = [op |-> "new", n |-> 0, err |-> Nil, wrote |-> 0, werr |-> FALSE]
  /\ dec = NewU32GroupVarintDecoder
  /\ src = [buf |-> <<>>, off |-> 0]
  /\ rfaults = 0
  /\ out = <<>>

\* A sink that accepts every write whole (no write exceeds TempLen bytes).
Reliable == {TempLen}
\* What a sink that may fail does with a write: accept it whole, or, while it
\* may still fail, accept only k bytes of it.
SinkChoices ==
  IF wfaults < MaxSinkFaults THEN 0..TempLen ELSE Reliable

\* The values a stream may continue with after the values p: any of Values
\* after a sequence of Values, the next value of a scenario after its start.
StreamInputs(p) ==
  {x \in Values : \A i \in 1..Len(p) : p[i] \in Values}
  \cup {s[Len(p) + 1] : s \in {t \in Scenarios :
          Len(t) > Len(p) /\ SubSeq(t, 1, Len(p)) = p}}

\* The effect of an encoder call with result res on the sink and the record
\* of the call.
Called(op, res) ==
  /\ enc' = res.b
  /\ sink' = sink \o res.data
  /\ wfaults' = wfaults + (IF res.werr THEN 1 ELSE 0)
  /\ ret' = [op |-> op, n |-> res.n, err |-> res.err,
             wrote |-> Len(res.data), werr |-> res.werr]

\* A call of PutU32(x), x in V, on a sink that does one of K. With index 4
\* (left by a failed flush) b.store[b.index] is out of range and the call
\* panics.
PutCall(V, K) ==
  /\ pc = "encode"
  /\ \E x \in V, k \in K :
       /\ puts' = Append(puts, x)
       /\ IF enc.index < GroupLen
          THEN /\ Called("PutU32", PutU32(enc, x, k))
               /\ pc' = pc
          ELSE /\ pc' = "panic"
               /\ ret' = [op |-> "PutU32", n |-> 0, err |-> "panic",
                          wrote |-> 0, werr |-> FALSE]
               /\ UNCHANGED <<enc, sink, wfaults>>
  /\ UNCHANGED <<nflush, decVars>>

\* At most MaxPuts calls of PutU32.
DoPutU32(V, K) == Len(puts) < MaxPuts /\ PutCall(V, K)

\* A call of Flush() on a sink that does one of K.
DoFlush(K) ==
  /\ pc = "encode"
  /\ \E k \in K : Called("Flush", Flush(enc, k))
  /\ nflush' = nflush + 1
  /\ UNCHANGED <<puts, decVars>>

\* A call of Close() on a sink that does one of K.
DoClose(K) ==
  /\ pc = "encode"
  /\ \E k \in K : Called("Close", Close(enc, k))
  /\ nflush' = nflush + 1
  /\ UNCHANGED <<puts, decVars>>

\* NewU32GroupVarintDecoder over a reader of the bytes written.
DoNewDecoder ==
  /\ pc' = "decode"
  /\ dec' = NewU32GroupVarintDecoder
  /\ src' = [buf |-> sink, off |-> 0]
  /\ UNCHANGED <<encVars, rfaults, out>>

\* Number of calls in o that returned an error.
ErrCount(o) == Cardinality({i \in 1..Len(o) : o[i].err # Nil})

\* A source that never fails with an error other than io.EOF.
NoTrip == {-1}
\* When a source that may fail does so in a call: never, or, while it may
\* still fail, at the read after t successful ones.
TripChoices ==
  IF rfaults < MaxReadFaults THEN (-1)..(TempLen - 1) ELSE NoTrip

\* A call of GetU32() on a source that does one of T.
DoGetU32(T) ==
  /\ pc = "decode"
  /\ ErrCount(out) < MaxErrGets
  /\ \E t \in T :
       LET res == GetU32(dec, [buf |-> src.buf, off |-> src.off, trip |-> t])
       IN /\ dec' = res.b
          /\ src' = [buf |-> res.rd.buf, off |-> res.rd.off]
          /\ rfaults' = rfaults + (IF t >= 0 /\ res.rd.trip < 0 THEN 1 ELSE 0)
          /\ out' = Append(out, [val |-> res.val,
                                 err |-> IF res.panic THEN "panic" ELSE res.err])
          /\ pc' = IF res.panic THEN "panic" ELSE pc
  /\ UNCHANGED encVars

\* ---- A stream: PutU32 of each value, Close, then a decoder over the bytes
\* written, on a sink and a source that do not fail.
StreamPutU32 == DoPutU32(StreamInputs(puts), Reliable)

StreamClose == DoClose(Reliable) /\ pc' = "closed"

StreamNewDecoder == pc = "closed" /\ DoNewDecoder

StreamGetU32 == DoGetU32(NoTrip)

Next ==
  \/ StreamPutU32
  \/ StreamClose
  \/ StreamNewDecoder
  \/ StreamGetU32

Spec == Init /\ [][Next]_vars

\* ---- Calls in any order: PutU32, Flush and Close, and at any time a decoder
\* over the bytes written so far, on a sink and a source that do not fail.
CallPutU32 == DoPutU32(FewValues, Reliable)

CallFlush == nflush < MaxFlushes /\ DoFlush(Reliable) /\ pc' = pc

CallClose == nflush < MaxFlushes /\ DoClose(Reliable) /\ pc' = pc

CallNewDecoder == pc = "encode" /\ DoNewDecoder

CallGetU32 == DoGetU32(NoTrip)

NextCalls ==
  \/ CallPutU32
  \/ CallFlush
  \/ CallClose
  \/ CallNewDecoder
  \/ CallGetU32

SpecCalls == Init /\ [][NextCalls]_vars

\* ---- Encoder calls in any order on a sink that may fail.
FaultyPutU32 == DoPutU32(FewValues, SinkChoices)

FaultyFlush == nflush < MaxFlushes /\ DoFlush(SinkChoices) /\ pc' = pc

FaultyClose == nflush < MaxFlushes /\ DoClose(SinkChoices) /\ pc' = pc

NextSinkFaults ==
  \/ FaultyPutU32
  \/ FaultyFlush
  \/ FaultyClose

SpecSinkFaults == Init /\ [][NextSinkFaults]_vars

\* ---- A stream of FewValues read from a source that may fail.
FewPutU32 == DoPutU32(FewValues, Reliable)

FaultyGetU32 == DoGetU32(TripChoices)

NextReadFaults ==
  \/ FewPutU32
  \/ StreamClose
  \/ StreamNewDecoder
  \/ FaultyGetU32

SpecReadFaults == Init /\ [][NextReadFaults]_vars

\* ---- A stream of up to MaxGroups groups of FewValues, written and read like
\* a stream.
GroupsPutU32 ==
  Len(puts) < GroupLen * MaxGroups /\ PutCall(FewValues, Reliable)

NextGroups ==
  \/ GroupsPutU32
  \/ StreamClose
  \/ StreamNewDecoder
  \/ StreamGetU32

SpecGroups == Init /\ [][NextGroups]_vars

\* ---- A decoder over a byte stream taken as it is.
InitBytes ==
  /\ pc = "decode"
  /\ enc = NewU32GroupVarintEncoder
  /\ sink = <<>>
  /\ wfaults = 0
  /\ puts = <<>>
  /\ nflush = 0
  /\ ret = [op |-> "new", n |-> 0, err |-> Nil, wrote |-> 0, werr |-> FALSE]
  /\ dec = NewU32GroupVarintDecoder
  /\ \E b \in ByteStreams : src = [buf |-> b, off |-> 0]
  /\ rfaults = 0
  /\ out = <<>>

BytesGetU32 == DoGetU32(NoTrip)

NextBytes == BytesGetU32

SpecBytes == InitBytes /\ [][NextBytes]_vars

\* ------------------------------------------------------------ wire format
\* The format of section 3, written down independently of the encoder.
\* v < 256^n for a uint32 v and n in 1..4
Below(v, n) ==
  CASE n = 1 -> v[1] = 0 /\ v[2] < 256
    [] n = 2 -> v[1] = 0
    [] n = 3 -> v[1] < 256
    [] OTHER -> TRUE
\* The fewest bytes that hold v: 1 below 2^8, 2 below 2^16, 3 below 2^24,
\* else 4.
MinWidth(v) ==
  CHOOSE n \in 1..4 : Below(v, n) /\ \A m \in 1..(n - 1) : ~Below(v, m)
\* The four bytes of v, most significant first, and the last n of them.
Bytes4(v) == <<v[1] \div 256, v[1] % 256, v[2] \div 256, v[2] % 256>>
BigEndian(v, n) == SubSeq(Bytes4(v), 5 - n, 4)
\* The control byte of the group g = <<v0, v1, v2, v3>>.
ControlByte(g) ==
  64 * (MinWidth(g[1]) - 1) + 16 * (MinWidth(g[2]) - 1)
  + 4 * (MinWidth(g[3]) - 1) + (MinWidth(g[4]) - 1)
WireGroup(g) ==
  <<ControlByte(g)>> \o BigEndian(g[1], MinWidth(g[1]))
  \o BigEndian(g[2], MinWidth(g[2])) \o BigEndian(g[3], MinWidth(g[3]))
  \o BigEndian(g[4], MinWidth(g[4]))
\* The values p followed by zeros up to a group of four.
Padded(p) == [i \in 1..GroupLen |-> IF i <= Len(p) THEN p[i] ELSE Zero32]
\* The last four values passed to PutU32.
LastGroup == SubSeq(puts, Len(puts) - 3, Len(puts))
\* The bytes the last encoder call added to the sink.
LastWritten == SubSeq(sink, Len(sink) - ret.wrote + 1, Len(sink))
\* The last PutU32 completed a group of four.
PutFourth ==
  pc = "encode" /\ ret.op = "PutU32" /\ Len(puts) > 0 /\ Len(puts) % 4 = 0
\* A value returned without error, and an io.EOF.
Got(v) == [val |-> v, err |-> Nil]
GotEOF == [val |-> Zero32, err |-> EOF]

\* ------------------------------------------------------------------ claims
\* C1: round trip. After PutU32 of each value of a sequence and Close, the
\* GetU32 calls of a decoder over the bytes written return the values in
\* order without error, and the call after the last value returns io.EOF.
RoundTrip ==
  pc = "decode" =>
    \A i \in 1..Len(out) :
      /\ i <= Len(puts) => out[i] = Got(puts[i])
      /\ i = Len(puts) + 1 => out[i] = GotEOF
RoundTripWitness ==
  /\ pc = "decode"
  /\ Len(puts) > GroupLen
  /\ \E i \in 1..Len(puts) : puts[i] = MaxU32
  /\ \E i \in 1..Len(puts) : puts[i] = Zero32
  /\ Len(out) = Len(puts) + 1
  /\ out[Len(out)] = GotEOF

\* C2: partial group. One, two or three values and Close write the bytes of
\* the full group of those values and zeros without its last 4 - count bytes,
\* the control byte as in the full group; decoding returns the count values
\* and then io.EOF.
PartialGroup ==
  (pc \in {"closed", "decode"} /\ Len(puts) \in 1..3) =>
    LET full == WireGroup(Padded(puts)) IN
    /\ sink = SubSeq(full, 1, Len(full) - (4 - Len(puts)))
    /\ sink[1] = ControlByte(Padded(puts))
    /\ \A i \in 1..Len(out) :
         /\ i <= Len(puts) => out[i] = Got(puts[i])
         /\ i = Len(puts) + 1 => out[i] = GotEOF
PartialGroupWitness ==
  /\ pc = "decode"
  /\ puts = <<U32(5), U32(6)>>
  /\ sink = <<0, 5, 6>>
  /\ out = <<Got(U32(5)), Got(U32(6)), GotEOF>>

\* C3: wire format of a full group. The bytes written by the fourth PutU32 of
\* a group are the control byte, holding width - 1 of slots 0..3 in bits 7-6,
\* 5-4, 3-2 and 1-0, and then the big-endian bytes of each value in slot
\* order, width bytes each.
FullGroupWire ==
  PutFourth => LastWritten = WireGroup(LastGroup)
FullGroupWireWitness ==
  /\ PutFourth
  /\ puts = <<U32(255), U32(256), U32(65535), U32(65536)>>
  /\ sink = <<22, 255, 1, 0, 255, 255, 1, 0, 0>>

\* C4: minimal width. The width the encoder declares for each value of a full
\* group is the fewest bytes that hold it (1 for zero), and the length of the
\* group is 1 plus the four widths: 5 for [0,0,0,0], 8 for [0xFFFFFFFF,0,0,0].
MinimalWidth ==
  PutFourth =>
    /\ \A i \in 0..3 :
         And8(Shr8(enc.temp[0], (3 - i) * 2), 3) + 1 = MinWidth(LastGroup[i + 1])
    /\ ret.n = 1 + MinWidth(LastGroup[1]) + MinWidth(LastGroup[2])
                 + MinWidth(LastGroup[3]) + MinWidth(LastGroup[4])
    /\ ret.wrote = ret.n
    /\ LastGroup = <<Zero32, Zero32, Zero32, Zero32>> => ret.n = 5
    /\ LastGroup = <<MaxU32, Zero32, Zero32, Zero32>> => ret.n = 8
MinimalWidthWitness ==
  /\ PutFourth
  /\ LastGroup = <<MaxU32, Zero32, Zero32, Zero32>>
  /\ ret.wrote = 8

\* C5 as stated: encoding [1, 300, 70000, 0] writes the control byte 0x10 and
\* the bytes 10 01 01 2C 01 11 70 00.
EncodeScenarioStated ==
  (pc = "encode" /\ puts = <<U32(1), U32(300), U32(70000), U32(0)>>) =>
    /\ sink[1] = 16
    /\ sink = <<16, 1, 1, 44, 1, 17, 112, 0>>
\* C5: encoding [1, 300, 70000, 0] writes the control byte 0x18
\* ((0<<6)|(1<<4)|(2<<2)|0) and the bytes 18 01 01 2C 01 11 70 00.
EncodeScenario ==
  (pc = "encode" /\ puts = <<U32(1), U32(300), U32(70000), U32(0)>>) =>
    /\ sink[1] = 24
    /\ sink = <<24, 1, 1, 44, 1, 17, 112, 0>>
EncodeScenarioWitness ==
  /\ puts = <<U32(1), U32(300), U32(70000), U32(0)>>
  /\ ret.op = "PutU32"
  /\ sink = <<24, 1, 1, 44, 1, 17, 112, 0>>

\* The first five results of out are 1, 300, 70000, 0 and io.EOF, as far as
\* out goes.
ScenarioResults ==
  LET want == <<Got(U32(1)), Got(U32(300)), Got(U32(70000)), Got(U32(0)),
                GotEOF>>
  IN \A i \in 1..Len(out) : i <= 5 => out[i] = want[i]
\* C6 as stated: a decoder reading 10 01 01 2C 01 11 70 00 returns 1, 300,
\* 70000, 0 from four GetU32 calls and io.EOF from the fifth.
DecodeScenarioStated ==
  (pc = "decode" /\ src.buf = <<16, 1, 1, 44, 1, 17, 112, 0>>) =>
    ScenarioResults
\* C6: a decoder reading 18 01 01 2C 01 11 70 00 returns 1, 300, 70000, 0
\* from four GetU32 calls and io.EOF from the fifth.
DecodeScenario ==
  (pc = "decode" /\ src.buf = <<24, 1, 1, 44, 1, 17, 112, 0>>) =>
    ScenarioResults
DecodeScenarioWitness ==
  /\ src.buf = <<24, 1, 1, 44, 1, 17, 112, 0>>
  /\ Len(out) = 5
  /\ out[3] = Got(U32(70000))
  /\ out[5] = GotEOF

\* C7: after a Flush or Close whose write succeeded, no value is buffered
\* (index is 0), so a Flush or Close right after it writes nothing.
FlushResets ==
  (ret.op \in {"Flush", "Close"} /\ ~ret.werr) => enc.index = 0

\* C8: Flush and Close with nothing pending (a fresh encoder, or one after a
\* multiple of four PutU32 calls) write nothing, return no error and leave the
\* encoder as it was.
FlushNothingPending ==
  [][(nflush' = nflush + 1 /\ Len(puts) % 4 = 0) =>
       /\ sink' = sink
       /\ enc' = enc
       /\ ret'.wrote = 0
       /\ ret'.n = 0
       /\ ret'.err = Nil]_vars
FlushNothingPendingWitness ==
  /\ ret.op = "Close"
  /\ Len(puts) = 4
  /\ nflush = 2
  /\ ret.wrote = 0
  /\ enc.index = 0

\* C9: when the sink's write fails in PutU32, Flush or Close, the call reports
\* the error to its caller.
WriteErrorReported ==
  ret.werr => ret.err = ErrWrite

\* C10: on a sink that does not fail, the first three PutU32 calls of each
\* group of four return 0 and write nothing, and the fourth returns the number
\* of bytes its flush added to the sink.
PutReturn ==
  (pc = "encode" /\ ret.op = "PutU32") =>
    /\ ret.err = Nil
    /\ Len(puts) % 4 # 0 => (ret.n = 0 /\ ret.wrote = 0)
    /\ Len(puts) % 4 = 0 => (ret.n = ret.wrote /\ ret.wrote >= 5)
PutReturnWitness ==
  /\ pc = "encode"
  /\ ret.op = "PutU32"
  /\ Len(puts) = 4
  /\ ret.n = TempLen
  /\ ret.wrote = TempLen

\* C11: exhausted is terminal. On a source whose end of data stays, once a
\* GetU32 call has returned io.EOF every later call returns io.EOF and no
\* value.
ExhaustedTerminal ==
  \A i \in 1..Len(out) : \A j \in (i + 1)..Len(out) :
    out[i].err = EOF => out[j] = GotEOF
ExhaustedTerminalWitness ==
  /\ Len(out) >= 3
  /\ out[1].err = Nil
  /\ out[Len(out) - 1] = GotEOF
  /\ out[Len(out)] = GotEOF
  /\ dec.finished

\* C12: hard read error. When the source fails with an error other than
\* io.EOF in the read of a size byte or of a slot byte, that GetU32 call
\* returns that error and no value, and the decoder is not marked exhausted.
HardReadError ==
  [][rfaults' > rfaults =>
       /\ out' = Append(out, [val |-> Zero32, err |-> ErrRead])
       /\ ~dec'.finished
       /\ dec'.capacity = dec.capacity]_vars
HardReadErrorWitness ==
  /\ rfaults = 1
  /\ out # <<>>
  /\ out[Len(out)] = [val |-> Zero32, err |-> ErrRead]
  /\ src.off > 1
  /\ src.off < Len(src.buf)
  /\ ~dec.finished

\* ---- The decoding of section 4.2, written down independently of the decoder.
\* The width the control byte c declares for slot k (0..3).
SlotWidth(c, k) == ((c \div (4 ^ (3 - k))) % 4) + 1
\* The value of the n bytes of buf after the first off, big-endian.
RECURSIVE SlotValue(_, _, _)
SlotValue(buf, off, n) ==
  IF n = 0 THEN Zero32
  ELSE Shl8Add32(SlotValue(buf, off, n - 1), buf[off + n])
\* The slots k..3 of the group with control byte c whose bytes start after
\* the first off of buf: the values of the complete slots, the offset after
\* them, and whether the stream ended inside a slot.
RECURSIVE RefSlots(_, _, _, _)
RefSlots(buf, off, c, k) ==
  IF k > 3 THEN [vals |-> <<>>, off |-> off, short |-> FALSE]
  ELSE IF off + SlotWidth(c, k) > Len(buf)
  THEN [vals |-> <<>>, off |-> Len(buf), short |-> TRUE]
  ELSE LET rest == RefSlots(buf, off + SlotWidth(c, k), c, k + 1) IN
       [vals  |-> <<SlotValue(buf, off, SlotWidth(c, k))>> \o rest.vals,
        off   |-> rest.off,
        short |-> rest.short]
\* The groups of buf from offset off on: the values, and whether the stream
\* ended inside a group after its control byte.
RECURSIVE RefDecode(_, _)
RefDecode(buf, off) ==
  IF off >= Len(buf) THEN [vals |-> <<>>, short |-> FALSE]
  ELSE LET g == RefSlots(buf, off + 1, buf[off + 1], 0) IN
       IF g.short THEN [vals |-> g.vals, short |-> TRUE]
       ELSE LET rest == RefDecode(buf, g.off) IN
            [vals |-> g.vals \o rest.vals, short |-> rest.short]

\* C13: short group on decode. When the stream ends inside slot k of a group,
\* after its control byte, GetU32 returns the values of the slots before k and
\* then io.EOF: never the part of slot k that was read, and for k = 0 no value
\* of that group.
ShortGroup ==
  LET ref == RefDecode(src.buf, 0) IN
  (pc \in {"decode", "panic"} /\ puts = <<>> /\ ref.short) =>
    \A i \in 1..Len(out) :
      /\ i <= Len(ref.vals) => out[i] = Got(ref.vals[i])
      /\ i > Len(ref.vals) => out[i] = GotEOF

\* C14: read-pointer invariant. For every byte stream and any number of
\* GetU32 calls 0 <= pos <= capacity <= 4, and every value returned comes from
\* a slot in 0..3 below the available count (no call indexes the group out of
\* range).
ReadPointer ==
  /\ 0 <= dec.pos
  /\ dec.pos <= dec.capacity
  /\ dec.capacity <= GroupLen
  /\ \A i \in 1..Len(out) : out[i].err # "panic"

\* The number of bytes of the first j groups of four of the values p.
RECURSIVE GroupBytes(_, _)
GroupBytes(p, j) ==
  IF j = 0 THEN 0
  ELSE GroupBytes(p, j - 1) + Len(WireGroup(SubSeq(p, 4 * j - 3, 4 * j)))
\* The number of values the GetU32 calls have returned.
Returned == Len(out) - ErrCount(out)

\* C15: group-boundary lockstep. On a stream of full groups the decoder reads
\* a group only when its buffer is used up and consumes just that group's
\* bytes, so that the bytes consumed are those of the groups the values
\* returned so far come from; io.EOF comes only from the calls after the last
\* value.
Lockstep ==
  (pc = "decode" /\ Len(puts) % 4 = 0) =>
    /\ src.off = GroupBytes(puts, (Returned + 3) \div 4)
    /\ \A i \in 1..Len(out) :
         /\ i <= Len(puts) => out[i] = Got(puts[i])
         /\ i > Len(puts) => (out[i] = GotEOF /\ src.off = Len(src.buf))
LockstepWitness ==
  /\ pc = "decode"
  /\ Len(puts) = 2 * GroupLen
  /\ puts[1] = MaxU32
  /\ puts[6] = Zero32
  /\ Returned = 5
  /\ src.off = Len(src.buf)
  /\ dec.pos = 1

\* The GetU32 calls so far returned the values passed to PutU32, in order,
\* each once, and then io.EOF.
OutIsPuts ==
  \A i \in 1..Len(out) :
    /\ i <= Len(puts) => out[i] = Got(puts[i])
    /\ i > Len(puts) => out[i] = GotEOF

\* C16: round trip under explicit flushes. PutU32 calls with Flush calls
\* between them at any points (0 to 3 values buffered), ended by Close:
\* decoding the bytes written returns the values passed to PutU32, in order,
\* each once, and then io.EOF.
FlushRoundTrip ==
  (pc \in {"decode", "panic"} /\ ret.op = "Close") => OutIsPuts

\* C17: buffer count of the encoder. On a sink that does not fail index is in
\* 0..3 whenever PutU32, Flush or Close returns, so that PutU32 stores into a
\* slot in 0..3 (no call panics), and a write has between 2 and 17 bytes.
BufferCount ==
  /\ enc.index \in 0..3
  /\ ret.err # "panic"
  /\ ret.wrote > 0 => (ret.wrote >= 2 /\ ret.wrote <= TempLen)
BufferCountWitness ==
  /\ ret.op = "Flush"
  /\ ret.wrote = 2
  /\ enc.index = 1
  /\ Len(puts) = MaxPuts
  /\ \E i \in 1..Len(puts) : puts[i] = MaxU32

====
